---- MODULE Spec2Model ----
(***************************************************************************)
(* Model of the modular-integer type ModInt of src/src/modint.rs.          *)
(*                                                                         *)
(* The Rust code computes in i64 (residues), u32 (moduli) and usize (the   *)
(* pow_mod loop).  TLC's own integers are 32 bits wide, so every program   *)
(* integer is held here as an exact signed integer of unbounded size       *)
(* ([neg, mag], mag a little-endian sequence of limbs), and the widths of  *)
(* the Rust types are then imposed explicitly (InI64, WrapI64, WrapU64).   *)
(***************************************************************************)
EXTENDS Integers, Sequences, FiniteSets, TLC

\* ------------------------------------------------------------------------
\* Exact natural numbers: little-endian limb sequences without trailing zeros
\* ------------------------------------------------------------------------

\* limb radix of the exact-integer representation
Base == 10^4

\* `let v = ...; body`: the value is computed once and named in the body
With(v, Body(_)) == Body(v)

RECURSIVE Trim(_)
Trim(s) ==
    IF s = <<>> THEN s
    ELSE IF s[Len(s)] = 0 THEN Trim(SubSeq(s, 1, Len(s) - 1)) ELSE s

RECURSIVE NatOf(_)
NatOf(n) == IF n = 0 THEN <<>> ELSE <<n % Base>> \o NatOf(n \div Base)

RECURSIVE NatCmpFrom(_, _, _)
NatCmpFrom(a, b, i) ==
    IF i = 0 THEN 0
    ELSE IF a[i] < b[i] THEN -1
    ELSE IF a[i] > b[i] THEN 1
    ELSE NatCmpFrom(a, b, i - 1)

\* -1, 0, 1 as a < b, a = b, a > b
NatCmp(a, b) ==
    IF Len(a) < Len(b) THEN -1
    ELSE IF Len(a) > Len(b) THEN 1
    ELSE NatCmpFrom(a, b, Len(a))

Limb(s, i) == IF i <= Len(s) THEN s[i] ELSE 0

RECURSIVE NatAddFrom(_, _, _, _)
NatAddFrom(a, b, i, c) ==
    IF i > Len(a) /\ i > Len(b)
    THEN (IF c = 0 THEN <<>> ELSE <<c>>)
    ELSE LET s == Limb(a, i) + Limb(b, i) + c
         IN  <<s % Base>> \o NatAddFrom(a, b, i + 1, s \div Base)

NatAdd(a, b) == NatAddFrom(a, b, 1, 0)

RECURSIVE NatSubFrom(_, _, _, _)
NatSubFrom(a, b, i, brw) ==
    IF i > Len(a) THEN <<>>
    ELSE LET d == Limb(a, i) - Limb(b, i) - brw
         IN  IF d < 0
             THEN <<d + Base>> \o NatSubFrom(a, b, i + 1, 1)
             ELSE <<d>> \o NatSubFrom(a, b, i + 1, 0)

\* a - b for a >= b
NatSub(a, b) == Trim(NatSubFrom(a, b, 1, 0))

RECURSIVE NatMulLimbFrom(_, _, _, _)
NatMulLimbFrom(a, d, i, c) ==
    IF i > Len(a)
    THEN (IF c = 0 THEN <<>> ELSE <<c>>)
    ELSE LET p == a[i] * d + c
         IN  <<p % Base>> \o NatMulLimbFrom(a, d, i + 1, p \div Base)

\* a * d for one limb d
NatMulLimb(a, d) == IF d = 0 THEN <<>> ELSE NatMulLimbFrom(a, d, 1, 0)

RECURSIVE NatMul(_, _)
NatMul(a, b) ==
    IF a = <<>> \/ b = <<>> THEN <<>>
    ELSE NatAdd(NatMulLimb(a, b[1]), Trim(<<0>> \o NatMul(a, Tail(b))))

\* a \div d and a % d for one limb d > 0, from the most significant limb of a down
RECURSIVE NatDivLimbFrom(_, _, _, _, _)
NatDivLimbFrom(a, d, i, q, r) ==
    IF i = 0 THEN <<Trim(q), NatOf(r)>>
    ELSE LET cur == r * Base + a[i]
         IN  NatDivLimbFrom(a, d, i - 1, <<cur \div d>> \o q, cur % d)

\* the quotient limb of r \div b: from the guess qh down to the first that fits
RECURSIVE QuotLimb(_, _, _)
QuotLimb(r, b, qh) ==
    IF NatCmp(NatMulLimb(b, qh), r) <= 0 THEN qh ELSE QuotLimb(r, b, qh - 1)

\* the guess: the two leading limbs of r by the leading limb of b (Len(b) >= 2,
\* r < b * Base); it is never below the quotient limb
QuotGuess(r, b) ==
    LET n == Len(b)
        top == IF Len(r) > n THEN r[n + 1] * Base + r[n] ELSE r[n]
        g == top \div b[n]
    IN  IF g < Base THEN g ELSE Base - 1

\* long division, from the most significant limb of a down: <<quotient, remainder>>
RECURSIVE NatLongDivFrom(_, _, _, _, _)
NatLongDivFrom(a, b, i, q, r) ==
    IF i = 0 THEN <<Trim(q), r>>
    ELSE With(Trim(<<a[i]>> \o r), LAMBDA r1 :
         With(IF NatCmp(r1, b) < 0 THEN 0 ELSE QuotLimb(r1, b, QuotGuess(r1, b)), LAMBDA d :
         NatLongDivFrom(a, b, i - 1, <<d>> \o q, NatSub(r1, NatMulLimb(b, d)))))

\* <<a \div b, a % b>> for b > 0; a divisor of several limbs is first scaled so that
\* its leading limb is at least Base \div 2, which keeps the guesses within 2
NatDivMod(a, b) ==
    IF NatCmp(a, b) < 0 THEN <<<<>>, a>>
    ELSE IF Len(b) = 1 THEN NatDivLimbFrom(a, b[1], Len(a), <<>>, 0)
    ELSE With(Base \div (b[Len(b)] + 1), LAMBDA d :
         With(NatMulLimb(a, d), LAMBDA an :
         With(NatLongDivFrom(an, NatMulLimb(b, d), Len(an), <<>>, <<>>), LAMBDA qr :
         <<qr[1], NatDivLimbFrom(qr[2], d, Len(qr[2]), <<>>, 0)[1]>>)))

RECURSIVE NatGcd(_, _)
NatGcd(a, b) == IF b = <<>> THEN a ELSE NatGcd(b, NatDivMod(a, b)[2])

RECURSIVE NatPow(_, _)
NatPow(a, e) == IF e = 0 THEN <<1>> ELSE NatMul(a, NatPow(a, e - 1))

\* ------------------------------------------------------------------------
\* Exact signed integers
\* ------------------------------------------------------------------------

MkInt(neg, mag) == [neg |-> neg /\ mag # <<>>, mag |-> mag]

\* the exact integer of a small literal
Z(n) == IF n < 0 THEN MkInt(TRUE, NatOf(-n)) ELSE MkInt(FALSE, NatOf(n))

IntNeg(x) == MkInt(~x.neg, x.mag)

IntAdd(x, y) ==
    IF x.neg = y.neg THEN MkInt(x.neg, NatAdd(x.mag, y.mag))
    ELSE IF NatCmp(x.mag, y.mag) >= 0 THEN MkInt(x.neg, NatSub(x.mag, y.mag))
    ELSE MkInt(y.neg, NatSub(y.mag, x.mag))

IntSub(x, y) == IntAdd(x, IntNeg(y))

IntMul(x, y) == MkInt(x.neg # y.neg, NatMul(x.mag, y.mag))

IntCmp(x, y) ==
    IF x.neg # y.neg THEN (IF x.neg THEN -1 ELSE 1)
    ELSE IF x.neg THEN NatCmp(y.mag, x.mag)
    ELSE NatCmp(x.mag, y.mag)

IntLt(x, y) == IntCmp(x, y) < 0
IntLe(x, y) == IntCmp(x, y) <= 0

\* Rust's `/` on signed integers rounds toward zero (y # 0)
TruncDiv(x, y) == MkInt(x.neg # y.neg, NatDivMod(x.mag, y.mag)[1])

\* Rust's `%` on signed integers: the remainder has the sign of the dividend (y # 0)
TruncRem(x, y) == MkInt(x.neg, NatDivMod(x.mag, y.mag)[2])

\* the mathematical residue of x modulo m > 0, in [0, m)
FloorMod(x, m) ==
    With(NatDivMod(x.mag, m.mag)[2], LAMBDA r :
    IF x.neg /\ r # <<>> THEN MkInt(FALSE, NatSub(m.mag, r)) ELSE MkInt(FALSE, r))

\* ------------------------------------------------------------------------
\* The widths of the Rust types
\* ------------------------------------------------------------------------

\* the limbs are written out; PowersOfTwo below relates them to one another
\* 2^16 = 65536
Two16 == [neg |-> FALSE, mag |-> <<5536, 6>>]
\* 2^32 = 4294967296
Two32 == [neg |-> FALSE, mag |-> <<7296, 9496, 42>>]
\* 2^63 = 9223372036854775808
Two63 == [neg |-> FALSE, mag |-> <<5808, 5477, 368, 3372, 922>>]
\* 2^64 = 18446744073709551616
Two64 == [neg |-> FALSE, mag |-> <<1616, 955, 737, 6744, 1844>>]

PowersOfTwo ==
    /\ Two16 = Z(65536)
    /\ Two32 = IntMul(Two16, Two16)
    /\ Two64 = IntMul(Two32, Two32)
    /\ Two64 = IntAdd(Two63, Two63)

\* i64::MIN = -2^63 = -9223372036854775808
I64Min == [neg |-> TRUE, mag |-> <<5808, 5477, 368, 3372, 922>>]
\* i64::MAX = 2^63 - 1 = 9223372036854775807
I64Max == [neg |-> FALSE, mag |-> <<5807, 5477, 368, 3372, 922>>]
\* u32::MAX = 2^32 - 1 = 4294967295
U32Max == [neg |-> FALSE, mag |-> <<7295, 9496, 42>>]
\* u64::MAX = 2^64 - 1 = 18446744073709551615
U64Max == [neg |-> FALSE, mag |-> <<1615, 955, 737, 6744, 1844>>]

WidthsOK ==
    /\ PowersOfTwo
    /\ I64Min = IntNeg(Two63)
    /\ I64Max = IntSub(Two63, Z(1))
    /\ U32Max = IntSub(Two32, Z(1))
    /\ U64Max = IntSub(Two64, Z(1))

InI64(x) == IntLe(I64Min, x) /\ IntLe(x, I64Max)
InU32(x) == IntLe(Z(0), x) /\ IntLe(x, U32Max)
InU64(x) == IntLe(Z(0), x) /\ IntLe(x, U64Max)

\* two's-complement wrap-around to 64 bits, read as signed / as unsigned
WrapU64(x) == FloorMod(x, Two64)
WrapI64(x) ==
    With(FloorMod(x, Two64), LAMBDA r :
    IF IntLt(r, Two63) THEN r ELSE IntSub(r, Two64))
WrapU32(x) == FloorMod(x, Two32)

\* ------------------------------------------------------------------------
\* State
\* ------------------------------------------------------------------------

VARIABLES
    overflow_checks,  \* the build: TRUE = integer overflow panics (debug),
                      \* FALSE = integer overflow wraps (release)
    a, b,             \* the caller's two ModInt bindings
    last,             \* the last operation: its name, operands and outcome
    pw,               \* the locals of a running pow_mod loop
    pc,               \* where the caller is: "let_a", "let_b", "run", "pow_mod", "end"
    ops               \* assignments (a <op>= ...) performed so far

vars == <<overflow_checks, a, b, last, pw, pc, ops>>

\* ------------------------------------------------------------------------
\* Primitive arithmetic at its Rust width
\* ------------------------------------------------------------------------

\* the outcome of a primitive operation: a value, or a panic
Val(v) == [ok |-> TRUE, v |-> v, why |-> ""]
Fail(why) == [ok |-> FALSE, v |-> Z(0), why |-> why]

\* i64 `+`, `-`, `*` of the exact result: panics under overflow checks, wraps without
i64_arith(exact) ==
    IF InI64(exact) THEN Val(exact)
    ELSE IF overflow_checks THEN Fail("arithmetic overflow")
    ELSE Val(WrapI64(exact))

i64_add(x, y) == i64_arith(IntAdd(x, y))
i64_sub(x, y) == i64_arith(IntSub(x, y))
i64_mul(x, y) == i64_arith(IntMul(x, y))

\* i64 `%`: a zero divisor and i64::MIN % -1 panic in every build
i64_rem(x, y) ==
    IF y = Z(0) THEN Fail("remainder with a divisor of zero")
    ELSE IF x = I64Min /\ y = Z(-1) THEN Fail("remainder with overflow")
    ELSE Val(TruncRem(x, y))

\* i64 `/`: a zero divisor and i64::MIN / -1 panic in every build
i64_div(x, y) ==
    IF y = Z(0) THEN Fail("division with a divisor of zero")
    ELSE IF x = I64Min /\ y = Z(-1) THEN Fail("division with overflow")
    ELSE Val(TruncDiv(x, y))

\* usize `*` (64-bit target)
usize_mul(x, y) ==
    With(IntMul(x, y), LAMBDA exact :
    IF InU64(exact) THEN Val(exact)
    ELSE IF overflow_checks THEN Fail("arithmetic overflow")
    ELSE Val(WrapU64(exact)))

\* u32::pow by repeated u32 multiplication
RECURSIVE u32_pow(_, _)
u32_pow(base, e) ==
    IF e = 0 THEN Val(Z(1))
    ELSE With(u32_pow(base, e - 1), LAMBDA r :
         IF ~r.ok THEN r
         ELSE With(IntMul(r.v, base), LAMBDA exact :
              IF InU32(exact) THEN Val(exact)
              ELSE IF overflow_checks THEN Fail("arithmetic overflow")
              ELSE Val(WrapU32(exact))))

\* `k as i64` for a primitive integer k: values of u64/usize above i64::MAX wrap
as_i64(k) == WrapI64(k)

\* `n as usize` for an i64 n: negative values wrap
as_usize(n) == WrapU64(n)

\* ------------------------------------------------------------------------
\* Modulo and ModInt
\* ------------------------------------------------------------------------

Static(m) == [static |-> TRUE, m |-> m]
Dynamic == [static |-> FALSE, m |-> Z(0)]

ModInt(num, modulo) == [num |-> num, modulo |-> modulo]

\* the outcome of an operation of ModInt: "ok" with the ModInt (val), the i64 (int)
\* or the comparison (flag) it returns; or "panic"
NoVal == ModInt(Z(0), Dynamic)
Ret(v) == [status |-> "ok", why |-> "", val |-> v, int |-> Z(0), flag |-> ""]
RetInt(i) == [status |-> "ok", why |-> "", val |-> NoVal, int |-> i, flag |-> ""]
RetFlag(f) == [status |-> "ok", why |-> "", val |-> NoVal, int |-> Z(0), flag |-> f]
Panic(why) == [status |-> "panic", why |-> why, val |-> NoVal, int |-> Z(0), flag |-> ""]
None == [status |-> "none", why |-> "", val |-> NoVal, int |-> Z(0), flag |-> ""]

\* compensated_rem without its second arm: a negative remainder is returned as it is
compensated_rem_no_fix(n, m) == TruncRem(n, m)

\* compensated_rem(n, m): n % m, with m added when the remainder is negative
compensated_rem(n, m) ==
    With(TruncRem(n, m), LAMBDA r :
    IF ~r.neg THEN r ELSE IntAdd(r, m))

Modulo_get(modulo) ==
    IF modulo.static THEN Val(modulo.m) ELSE Fail("unwrap on None")

get(self) == self.num

get_mod(self) == Modulo_get(self.modulo)

\* check_mod_eq without the comparison of two Static moduli
check_mod_eq_uncompared(x, y) ==
    IF x.modulo.static /\ y.modulo.static THEN [m |-> x.modulo.m, eq |-> TRUE]
    ELSE IF x.modulo.static THEN [m |-> x.modulo.m, eq |-> TRUE]
    ELSE IF y.modulo.static THEN [m |-> y.modulo.m, eq |-> TRUE]
    ELSE [m |-> Z(1), eq |-> FALSE]

\* check_mod_eq(a, b): the shared modulus and whether the operands are compatible
check_mod_eq(x, y) ==
    IF x.modulo.static /\ y.modulo.static
    THEN (IF x.modulo.m = y.modulo.m
          THEN [m |-> x.modulo.m, eq |-> TRUE]
          ELSE [m |-> Z(1), eq |-> FALSE])
    ELSE IF x.modulo.static THEN [m |-> x.modulo.m, eq |-> TRUE]
    ELSE IF y.modulo.static THEN [m |-> y.modulo.m, eq |-> TRUE]
    ELSE [m |-> Z(1), eq |-> FALSE]

\* ModInt::new(n, m) for integers n, m of any primitive type
new(n, m) ==
    IF ~InU32(m) THEN Panic("modulo number may be wrong")
    ELSE IF m = Z(0) THEN Panic("unwrap on None")
    ELSE IF ~InI64(n) THEN Panic("modulo number maybe over i64 range")
    ELSE Ret(ModInt(compensated_rem(n, m), Static(m)))

to_mint(n, m) == new(n, m)

eq(self, other) ==
    IF ~check_mod_eq(self, other).eq
    THEN Panic("cannot compare these values because they have different modulo number")
    ELSE RetFlag(IF get(self) = other.num THEN "true" ELSE "false")

partial_cmp(self, other) ==
    IF ~check_mod_eq(self, other).eq THEN RetFlag("None")
    ELSE LET c == IntCmp(get(self), other.num)
         IN  RetFlag(IF c < 0 THEN "Less" ELSE IF c = 0 THEN "Equal" ELSE "Greater")

\* num_integer's Integer::extended_gcd(self, other), as inv calls it on i64: the
\* loop on the pairs r, s, t (each <<.0, .1>>) and the Bezout coefficients.  Every
\* `/`, `*` and `-` is i64 arithmetic: it panics or wraps on overflow like any other.

\* the closure f: swap the pair, then .0 = .0 - q * .1
egcd_step(q, p) ==
    With(i64_mul(q, p[1]), LAMBDA m :
    IF ~m.ok THEN m
    ELSE With(i64_sub(p[2], m.v), LAMBDA d :
         IF ~d.ok THEN d ELSE Val(<<d.v, p[1]>>)))

\* the result of the loop, or the panic that ended it
egcd_state(ok, why, r, s, t) == [ok |-> ok, why |-> why, r |-> r, s |-> s, t |-> t]

RECURSIVE egcd_loop(_, _, _)
egcd_loop(r, s, t) ==
    IF r[1] = Z(0) THEN egcd_state(TRUE, "", r, s, t)
    ELSE With(i64_div(r[2], r[1]), LAMBDA q :
         IF ~q.ok THEN egcd_state(FALSE, q.why, r, s, t)
         ELSE With(egcd_step(q.v, r), LAMBDA r1 :
              With(egcd_step(q.v, s), LAMBDA s1 :
              With(egcd_step(q.v, t), LAMBDA t1 :
              IF ~r1.ok THEN egcd_state(FALSE, r1.why, r, s, t)
              ELSE IF ~s1.ok THEN egcd_state(FALSE, s1.why, r, s, t)
              ELSE IF ~t1.ok THEN egcd_state(FALSE, t1.why, r, s, t)
              ELSE egcd_loop(r1.v, s1.v, t1.v)))))

\* ExtendedGcd { gcd, x, y }, or the panic (ok = FALSE)
ExtendedGcd(ok, why, gcd, x, y) == [ok |-> ok, why |-> why, gcd |-> gcd, x |-> x, y |-> y]

extended_gcd(self, other) ==
    With(egcd_loop(<<other, self>>, <<Z(0), Z(1)>>, <<Z(1), Z(0)>>), LAMBDA e :
    IF ~e.ok THEN ExtendedGcd(FALSE, e.why, Z(0), Z(0), Z(0))
    ELSE IF ~e.r[2].neg THEN ExtendedGcd(TRUE, "", e.r[2], e.s[2], e.t[2])
    ELSE With(i64_sub(Z(0), e.r[2]), LAMBDA g :
         With(i64_sub(Z(0), e.s[2]), LAMBDA x :
         With(i64_sub(Z(0), e.t[2]), LAMBDA y :
         IF ~g.ok THEN ExtendedGcd(FALSE, g.why, Z(0), Z(0), Z(0))
         ELSE IF ~x.ok THEN ExtendedGcd(FALSE, x.why, Z(0), Z(0), Z(0))
         ELSE IF ~y.ok THEN ExtendedGcd(FALSE, y.why, Z(0), Z(0), Z(0))
         ELSE ExtendedGcd(TRUE, "", g.v, x.v, y.v)))))

\* inv without the final compensated_rem: the Bezout coefficient as extended_gcd gives it
inv_raw(self) ==
    With(get_mod(self), LAMBDA m :
    IF ~m.ok THEN Panic(m.why)
    ELSE With(extended_gcd(get(self), m.v), LAMBDA g :
         IF ~g.ok THEN Panic(g.why) ELSE RetInt(g.x)))

\* self.inv()
inv(self) ==
    With(get_mod(self), LAMBDA m :
    IF ~m.ok THEN Panic(m.why)
    ELSE With(extended_gcd(get(self), m.v), LAMBDA g :
         IF ~g.ok THEN Panic(g.why) ELSE RetInt(compensated_rem(g.x, m.v))))

add(self, rhs) ==
    With(check_mod_eq(self, rhs), LAMBDA c :
    With(i64_add(get(self), rhs.num), LAMBDA r :
    With(get_mod(self), LAMBDA m :
    IF ~c.eq THEN Panic("modulo between two instance is different!")
    ELSE IF ~r.ok THEN Panic(r.why)
    ELSE IF ~m.ok THEN Panic(m.why)
    ELSE Ret(ModInt(IF IntLe(m.v, r.v) THEN IntSub(r.v, c.m) ELSE r.v, Static(c.m))))))

sub(self, rhs) ==
    With(check_mod_eq(self, rhs), LAMBDA c :
    With(i64_sub(get(self), get(rhs)), LAMBDA d :
    IF ~c.eq THEN Panic("modulo between two instance is different!")
    ELSE IF ~d.ok THEN Panic(d.why)
    ELSE Ret(ModInt(compensated_rem(d.v, c.m), Static(c.m)))))

mul(self, rhs) ==
    With(check_mod_eq(self, rhs), LAMBDA c :
    With(i64_mul(get(self), get(rhs)), LAMBDA p :
    IF ~c.eq THEN Panic("modulo between two instance is different!")
    ELSE IF ~p.ok THEN Panic(p.why)
    ELSE Ret(ModInt(compensated_rem(p.v, c.m), Static(c.m)))))

div(self, rhs) ==
    With(check_mod_eq(self, rhs), LAMBDA c :
    With(inv(rhs), LAMBDA i :
    With(i64_mul(get(self), i.int), LAMBDA p :
    IF ~c.eq THEN Panic("modulo between two instance is different!")
    ELSE IF i.status = "panic" THEN i
    ELSE IF ~p.ok THEN Panic(p.why)
    ELSE Ret(ModInt(i64_rem(p.v, c.m).v, Static(c.m))))))

rem(self, rhs) ==
    With(check_mod_eq(self, rhs), LAMBDA c :
    With(i64_rem(self.num, rhs.num), LAMBDA r :
    IF ~c.eq THEN Panic("modulo between two instance is different!")
    ELSE IF ~r.ok THEN Panic(r.why)
    ELSE Ret(ModInt(r.v, Static(c.m)))))

zero == ModInt(Z(0), Dynamic)
one == ModInt(Z(1), Dynamic)

\* the binary operator named op
apply(op, self, rhs) ==
    CASE op = "add" -> add(self, rhs)
      [] op = "sub" -> sub(self, rhs)
      [] op = "mul" -> mul(self, rhs)
      [] op = "div" -> div(self, rhs)
      [] op = "rem" -> rem(self, rhs)

\* `self <op> k` for a primitive integer k (impl_ops_between_mint_and_primitive)
apply_primitive(op, self, k) ==
    With(get_mod(self), LAMBDA m :
    With(new(as_i64(k), m.v), LAMBDA r :
    IF ~m.ok THEN Panic(m.why)
    ELSE IF r.status = "panic" THEN r
    ELSE apply(op, self, r.val)))

\* char::to_digit(radix): the digits 0-9 and the letters a-z / A-Z, below the radix;
\* a radix outside 2..36 panics inside to_digit, whatever the character
LowerDigits ==
    << "0", "1", "2", "3", "4", "5", "6", "7", "8", "9", "a", "b", "c", "d", "e",
       "f", "g", "h", "i", "j", "k", "l", "m", "n", "o", "p", "q", "r", "s", "t",
       "u", "v", "w", "x", "y", "z" >>
UpperDigits ==
    << "0", "1", "2", "3", "4", "5", "6", "7", "8", "9", "A", "B", "C", "D", "E",
       "F", "G", "H", "I", "J", "K", "L", "M", "N", "O", "P", "Q", "R", "S", "T",
       "U", "V", "W", "X", "Y", "Z" >>

to_digit(c, radix) ==
    LET hits == {i \in 1..Len(LowerDigits) : LowerDigits[i] = c \/ UpperDigits[i] = c}
    IN  IF radix < 2 \/ radix > Len(LowerDigits) THEN Fail("to_digit: radix is too high")
        ELSE IF hits = {} THEN Fail("unwrap on None")
        ELSE LET d == (CHOOSE i \in hits : TRUE) - 1
             IN  IF d < radix THEN Val(Z(d)) ELSE Fail("unwrap on None")

\* the sum over the reversed, enumerated characters, from index i on
RECURSIVE from_str_radix_sum(_, _, _, _)
from_str_radix_sum(str, radix, i, acc) ==
    IF i >= Len(str) THEN Val(acc)
    ELSE With(u32_pow(Z(radix), i), LAMBDA p :
         With(to_digit(str[Len(str) - i], radix), LAMBDA d :
         With(i64_mul(p.v, d.v), LAMBDA t :
         With(i64_add(acc, t.v), LAMBDA n :
         IF ~p.ok THEN p
         ELSE IF ~d.ok THEN d
         ELSE IF ~t.ok THEN t
         ELSE IF ~n.ok THEN n
         ELSE from_str_radix_sum(str, radix, i + 1, n.v)))))

from_str_radix(str, radix) ==
    With(from_str_radix_sum(str, radix, 0, Z(0)), LAMBDA num :
    IF ~num.ok THEN Panic(num.why) ELSE Ret(ModInt(num.v, Dynamic)))

\* pow_mod: the locals at loop entry
pow_mod_enter(self, exp) ==
    [active |-> TRUE, self |-> self, exp0 |-> exp, iter |-> 0,
     res |-> Z(1), base |-> as_usize(get(self)), m |-> get_mod(self).v, exp |-> exp]

\* pow_mod: one iteration of the while loop; ok = FALSE when an overflow panics
pow_mod_step(l) ==
    With(IF l.exp % 2 # 0 THEN usize_mul(l.res, l.base) ELSE Val(l.res), LAMBDA r1 :
    With(IF l.exp % 2 # 0 THEN TruncRem(r1.v, l.m) ELSE r1.v, LAMBDA r2 :
    With(usize_mul(l.base, l.base), LAMBDA b1 :
    With(TruncRem(b1.v, l.m), LAMBDA b2 :
    [ok |-> r1.ok /\ b1.ok,
     why |-> IF ~r1.ok THEN r1.why ELSE b1.why,
     l |-> [l EXCEPT !.res = r2, !.base = b2,
                     !.exp = l.exp \div 2, !.iter = l.iter + 1]]))))

\* pow_mod: the value returned once the loop has ended
pow_mod_exit(l) == new(l.res, get_mod(l.self).v)

PowIdle ==
    [active |-> FALSE, self |-> NoVal, exp0 |-> 0, iter |-> 0,
     res |-> Z(0), base |-> Z(0), m |-> Z(0), exp |-> 0]

\* Factoriable::falling: the loop, with `left` iterations to go
RECURSIVE falling_loop(_, _, _)
falling_loop(res, c, left) ==
    IF left = 0 THEN Ret(res)
    ELSE With(mul(res, c), LAMBDA r :
         With(sub(c, one), LAMBDA d :
         IF r.status = "panic" THEN r
         ELSE IF d.status = "panic" THEN d
         ELSE falling_loop(r.val, d.val, left - 1)))

falling(self, take) == falling_loop(one, self, take)

RECURSIVE rising_loop(_, _, _)
rising_loop(res, c, left) ==
    IF left = 0 THEN Ret(res)
    ELSE With(mul(res, c), LAMBDA r :
         With(apply_primitive("add", c, Z(1)), LAMBDA d :
         IF r.status = "panic" THEN r
         ELSE IF d.status = "panic" THEN d
         ELSE rising_loop(r.val, d.val, left - 1)))

rising(self, take) == rising_loop(one, self, take)

\* ------------------------------------------------------------------------
\* Bounds and inputs
\* ------------------------------------------------------------------------

\* assignment operators (a <op>= ...) in one run
MaxOps == 1
\* exponents given to pow
MaxExp == 3
\* lengths given to falling and rising
MaxTake == 2

\* <<n, m>> given to new and to_mint: n of either sign and at both ends of i64, m
\* from 1 to the largest u32; the last three are rejected (m = 0, m = 2^32, n = 2^63)
NewArgs ==
    { <<Z(10), Z(3)>>, <<Z(-10), Z(3)>>, <<Z(6), Z(3)>>, <<I64Min, Z(3)>>,
      <<Z(6), Z(13)>>, <<Z(-1), Z(13)>>,
      <<I64Max, Z(1)>>, <<I64Min, Z(1)>>,
      <<Z(-1), U32Max>>, <<I64Min, U32Max>>, <<I64Max, U32Max>>,
      <<Z(6), Z(0)>>, <<Z(6), Two32>>, <<Two63, Z(3)>> }

\* plain integers given to the mixed operators: an i32/i64 value and the largest u64
Primitives == {Z(4), U64Max}

\* digit strings and radixes given to from_str_radix: "12" is no number in radix 2,
\* "zzzzzzz" is 36^7 - 1 in radix 36 and no number in the others
Strings == {<<"1", "2">>, <<"z", "z", "z", "z", "z", "z", "z">>}
Radixes == {10, 2, 36}

BinOps == {"add", "sub", "mul", "div", "rem"}
PrimOps == {"add", "sub", "mul", "div"}

\* ------------------------------------------------------------------------
\* The caller: it binds a, then b, applies assignment operators to a, and ends
\* with one operation whose result it reads.  One action per public operation.
\* ------------------------------------------------------------------------

Op(name, x, y, n, m, e, str, out) ==
    [op |-> name, x |-> x, y |-> y, n |-> n, m |-> m, e |-> e, str |-> str, out |-> out]

Letting == pc \in {"let_a", "let_b"}

\* `let a = <out>; let b = <out>;` a panic ends the run
Let(out) ==
    /\ a' = IF pc = "let_a" /\ out.status = "ok" THEN out.val ELSE a
    /\ b' = IF pc = "let_b" /\ out.status = "ok" THEN out.val ELSE b
    /\ pc' = IF out.status = "panic" THEN "end" ELSE IF pc = "let_a" THEN "let_b" ELSE "run"

\* `a = <out>;`
Assign(out) ==
    /\ ops < MaxOps
    /\ a' = IF out.status = "ok" THEN out.val ELSE a
    /\ pc' = IF out.status = "panic" THEN "end" ELSE "run"
    /\ ops' = ops + 1

Init ==
    /\ overflow_checks \in BOOLEAN
    /\ a = NoVal
    /\ b = NoVal
    /\ last = Op("start", NoVal, NoVal, Z(0), Z(0), 0, <<>>, None)
    /\ pw = PowIdle
    /\ pc = "let_a"
    /\ ops = 0

\* ModInt::new(n, m)
New(n, m) ==
    /\ Letting
    /\ last' = Op("new", NoVal, NoVal, n, m, 0, <<>>, new(n, m))
    /\ Let(new(n, m))
    /\ UNCHANGED <<overflow_checks, pw, ops>>

\* n.to_mint(m)
ToMint(n, m) ==
    /\ Letting
    /\ last' = Op("to_mint", NoVal, NoVal, n, m, 0, <<>>, to_mint(n, m))
    /\ Let(to_mint(n, m))
    /\ UNCHANGED <<overflow_checks, pw, ops>>

\* ModInt::zero()
Zero ==
    /\ Letting
    /\ last' = Op("zero", NoVal, NoVal, Z(0), Z(0), 0, <<>>, Ret(zero))
    /\ Let(Ret(zero))
    /\ UNCHANGED <<overflow_checks, pw, ops>>

\* ModInt::one()
One ==
    /\ Letting
    /\ last' = Op("one", NoVal, NoVal, Z(0), Z(0), 0, <<>>, Ret(one))
    /\ Let(Ret(one))
    /\ UNCHANGED <<overflow_checks, pw, ops>>

\* ModInt::from_str_radix(str, radix)
FromStrRadix(str, radix) ==
    /\ Letting
    /\ last' = Op("from_str_radix", NoVal, NoVal, Z(0), Z(0), radix, str,
                  from_str_radix(str, radix))
    /\ Let(from_str_radix(str, radix))
    /\ UNCHANGED <<overflow_checks, pw, ops>>

\* a <op> b
BinOp(op) ==
    /\ pc = "run"
    /\ last' = Op(op, a, b, Z(0), Z(0), 0, <<>>, apply(op, a, b))
    /\ pc' = "end"
    /\ UNCHANGED <<overflow_checks, a, b, pw, ops>>

\* a <op>= b
BinOpAssign(op) ==
    /\ pc = "run"
    /\ last' = Op(op \o "_assign", a, b, Z(0), Z(0), 0, <<>>, apply(op, a, b))
    /\ Assign(apply(op, a, b))
    /\ UNCHANGED <<overflow_checks, b, pw>>

\* a <op> k
PrimOp(op, k) ==
    /\ pc = "run"
    /\ last' = Op(op \o "_primitive", a, NoVal, k, Z(0), 0, <<>>, apply_primitive(op, a, k))
    /\ pc' = "end"
    /\ UNCHANGED <<overflow_checks, a, b, pw, ops>>

\* a <op>= k
PrimOpAssign(op, k) ==
    /\ pc = "run"
    /\ last' = Op(op \o "_assign_primitive", a, NoVal, k, Z(0), 0, <<>>,
                  apply_primitive(op, a, k))
    /\ Assign(apply_primitive(op, a, k))
    /\ UNCHANGED <<overflow_checks, b, pw>>

\* a == b
Eq ==
    /\ pc = "run"
    /\ last' = Op("eq", a, b, Z(0), Z(0), 0, <<>>, eq(a, b))
    /\ pc' = "end"
    /\ UNCHANGED <<overflow_checks, a, b, pw, ops>>

\* a.partial_cmp(&b)
PartialCmp ==
    /\ pc = "run"
    /\ last' = Op("partial_cmp", a, b, Z(0), Z(0), 0, <<>>, partial_cmp(a, b))
    /\ pc' = "end"
    /\ UNCHANGED <<overflow_checks, a, b, pw, ops>>

\* a.inv()
Inv ==
    /\ pc = "run"
    /\ last' = Op("inv", a, NoVal, Z(0), Z(0), 0, <<>>, inv(a))
    /\ pc' = "end"
    /\ UNCHANGED <<overflow_checks, a, b, pw, ops>>

\* a.pow(e): entry into pow_mod
PowEnter(e) ==
    /\ pc = "run"
    /\ IF get_mod(a).ok
       THEN /\ pw' = pow_mod_enter(a, e)
            /\ last' = Op("pow", a, NoVal, Z(0), Z(0), e, <<>>, None)
            /\ pc' = "pow_mod"
       ELSE /\ pw' = pw
            /\ last' = Op("pow", a, NoVal, Z(0), Z(0), e, <<>>, Panic(get_mod(a).why))
            /\ pc' = "end"
    /\ UNCHANGED <<overflow_checks, a, b, ops>>

\* one iteration of pow_mod's loop
PowStep ==
    /\ pc = "pow_mod"
    /\ pw.exp > 0
    /\ LET s == pow_mod_step(pw)
       IN  IF s.ok
           THEN pw' = s.l /\ last' = last /\ pc' = pc
           ELSE pw' = [pw EXCEPT !.active = FALSE]
                /\ last' = [last EXCEPT !.out = Panic(s.why)]
                /\ pc' = "end"
    /\ UNCHANGED <<overflow_checks, a, b, ops>>

\* pow_mod returns
PowExit ==
    /\ pc = "pow_mod"
    /\ pw.exp = 0
    /\ last' = [last EXCEPT !.out = pow_mod_exit(pw)]
    /\ pw' = [pw EXCEPT !.active = FALSE]
    /\ pc' = "end"
    /\ UNCHANGED <<overflow_checks, a, b, ops>>

\* a.falling(take)
Falling(take) ==
    /\ pc = "run"
    /\ last' = Op("falling", a, NoVal, Z(0), Z(0), take, <<>>, falling(a, take))
    /\ pc' = "end"
    /\ UNCHANGED <<overflow_checks, a, b, pw, ops>>

\* a.rising(take)
Rising(take) ==
    /\ pc = "run"
    /\ last' = Op("rising", a, NoVal, Z(0), Z(0), take, <<>>, rising(a, take))
    /\ pc' = "end"
    /\ UNCHANGED <<overflow_checks, a, b, pw, ops>>

Next ==
    \/ \E nm \in NewArgs : New(nm[1], nm[2])
    \/ \E nm \in NewArgs : ToMint(nm[1], nm[2])
    \/ Zero
    \/ One
    \/ \E str \in Strings, radix \in Radixes : FromStrRadix(str, radix)
    \/ \E op \in BinOps : BinOp(op)
    \/ \E op \in BinOps : BinOpAssign(op)
    \/ \E op \in PrimOps, k \in Primitives : PrimOp(op, k)
    \/ \E op \in PrimOps, k \in Primitives : PrimOpAssign(op, k)
    \/ Eq
    \/ PartialCmp
    \/ Inv
    \/ \E e \in 0..MaxExp : PowEnter(e)
    \/ PowStep
    \/ PowExit
    \/ \E take \in 0..MaxTake : Falling(take)
    \/ \E take \in 0..MaxTake : Rising(take)

Spec == Init /\ [][Next]_vars

\* ------------------------------------------------------------------------
\* Properties
\* ------------------------------------------------------------------------

TypeOK ==
    /\ overflow_checks \in BOOLEAN
    /\ pc \in {"let_a", "let_b", "run", "pow_mod", "end"}
    /\ ops \in 0..MaxOps
    /\ last.out.status \in {"none", "ok", "panic"}
    /\ WidthsOK

Fixed(v) == v.modulo.static
Modulus(v) == v.modulo.m
\* 0 <= v.num < m
Reduced(v) == ~v.num.neg /\ IntLt(v.num, Modulus(v))
SameFixed(x, y) == Fixed(x) /\ Fixed(y) /\ Modulus(x) = Modulus(y)
Incompatible(x, y) ==
    \/ Fixed(x) /\ Fixed(y) /\ Modulus(x) # Modulus(y)
    \/ ~Fixed(x) /\ ~Fixed(y)
Coprime(n, m) == NatGcd(n.mag, m.mag) = <<1>>
Returned == last.out.status = "ok"
Result == last.out.val

OpsNew == {"new", "to_mint"}
OpsAdd == {"add", "add_assign"}
OpsSub == {"sub", "sub_assign"}
OpsMul == {"mul", "mul_assign"}
OpsDiv == {"div", "div_assign"}
OpsRem == {"rem", "rem_assign"}
OpsBinary == OpsAdd \cup OpsSub \cup OpsMul \cup OpsDiv \cup OpsRem

\* C1: for n in the i64 range and 1 <= m <= 2^32 - 1, new(n, m) and n.to_mint(m)
\* return a Fixed(m) value whose residue r has 0 <= r < m and r congruent to n mod m
C1_NewReduces ==
    (last.op \in OpsNew /\ InI64(last.n) /\ IntLe(Z(1), last.m) /\ IntLe(last.m, U32Max))
    => /\ Returned
       /\ Result.modulo = Static(last.m)
       /\ Reduced(Result)
       /\ FloorMod(IntSub(last.n, Result.num), last.m) = Z(0)

\* new(-10, 3) has residue 2
C1_Witness ==
    /\ last.op = "new" /\ last.n = Z(-10) /\ last.m = Z(3)
    /\ Returned /\ Result = ModInt(Z(2), Static(Z(3)))

\* C2: every ModInt value (a binding, or the value an operation returned) whose
\* modulus is Fixed(m) has a residue r with 0 <= r < m
C2_ResidueInRange ==
    \A v \in {a, b, Result} : Fixed(v) => Reduced(v)

\* C3: for a, b with the same Fixed modulus m, a + b, a - b and a * b return a
\* Fixed(m) value with residue (a.residue <op> b.residue) mod m, taken in [0, m)
C3_AddSubMul ==
    (last.op \in OpsAdd \cup OpsSub \cup OpsMul /\ SameFixed(last.x, last.y))
    => LET m == Modulus(last.x)
           exact == IF last.op \in OpsAdd THEN IntAdd(last.x.num, last.y.num)
                    ELSE IF last.op \in OpsSub THEN IntSub(last.x.num, last.y.num)
                    ELSE IntMul(last.x.num, last.y.num)
       IN  Returned /\ Result = ModInt(FloorMod(exact, m), Static(m))

\* C4: for a Fixed(x) value v, each of v + zero(), zero() + v, v * one() and
\* one() * v completes and returns the Fixed(x) value with v's residue
C4_IdentitySeeds ==
    /\ (last.op \in OpsAdd /\ Fixed(last.x) /\ last.y = zero) => (Returned /\ Result = last.x)
    /\ (last.op \in OpsAdd /\ last.x = zero /\ Fixed(last.y)) => (Returned /\ Result = last.y)
    /\ (last.op \in OpsMul /\ Fixed(last.x) /\ last.y = one) => (Returned /\ Result = last.x)
    /\ (last.op \in OpsMul /\ last.x = one /\ Fixed(last.y)) => (Returned /\ Result = last.y)

\* C5: on operands with incompatible moduli (Fixed(x) and Fixed(y) with x # y, or
\* both Unset) each of +, -, *, /, % and == panics and returns nothing, while
\* partial_cmp returns None without panicking
C5_IncompatibleModuli ==
    Incompatible(last.x, last.y)
    => /\ last.op \in OpsBinary
          => /\ last.out.status = "panic"
             /\ last.out.why = "modulo between two instance is different!"
       /\ last.op = "eq"
          => /\ last.out.status = "panic"
             /\ last.out.why =
                "cannot compare these values because they have different modulo number"
       /\ last.op = "partial_cmp" => (Returned /\ last.out.flag = "None")

\* new(.., 3) + new(.., 13) has panicked
C5_Witness ==
    /\ last.op = "add"
    /\ Fixed(last.x) /\ Modulus(last.x) = Z(3)
    /\ Fixed(last.y) /\ Modulus(last.y) = Z(13)
    /\ last.out.status = "panic"

\* C6 as stated: for a Fixed(m) value a with residue coprime to m, a.inv() returns
\* r with 0 <= r < m and (a.residue * r) mod m = 1
C6_InverseIsOne ==
    (last.op = "inv" /\ Fixed(last.x) /\ Coprime(last.x.num, Modulus(last.x)))
    => /\ Returned
       /\ ~last.out.int.neg /\ IntLt(last.out.int, Modulus(last.x))
       /\ FloorMod(IntMul(last.x.num, last.out.int), Modulus(last.x)) = Z(1)

\* C6 amended: ... and (a.residue * r) mod m = 1 mod m, which is 1 for m >= 2 and
\* 0 for m = 1
C6_InverseLaw ==
    (last.op = "inv" /\ Fixed(last.x) /\ Coprime(last.x.num, Modulus(last.x)))
    => /\ Returned
       /\ ~last.out.int.neg /\ IntLt(last.out.int, Modulus(last.x))
       /\ FloorMod(IntMul(last.x.num, last.out.int), Modulus(last.x))
          = FloorMod(Z(1), Modulus(last.x))

\* new(6, 13).inv() has returned 11
C6_Witness ==
    /\ last.op = "inv" /\ last.x = ModInt(Z(6), Static(Z(13)))
    /\ Returned /\ last.out.int = Z(11)

\* C7: for a, b with the same Fixed modulus m and b's residue coprime to m, a / b
\* equals a * b.inv(), and the quotient q has 0 <= q.residue < m and
\* (q.residue * b.residue) mod m = a.residue
C7_DivisionConsistency ==
    (last.op \in OpsDiv /\ SameFixed(last.x, last.y)
        /\ Coprime(last.y.num, Modulus(last.y)))
    => /\ Returned
       /\ last.out = apply_primitive("mul", last.x, inv(last.y).int)
       /\ Reduced(Result)
       /\ FloorMod(IntMul(Result.num, last.y.num), Modulus(last.x)) = last.x.num

IntPow(x, e) == MkInt(x.neg /\ e % 2 = 1, NatPow(x.mag, e))

\* C8 as stated: for a Fixed(m) value a and e >= 0, a.pow(e) returns the Fixed(m)
\* value with residue (a.residue^e) mod m (so a.pow(0) is 1 mod m), and after every
\* step of the loop the accumulator and the base are below m
C8_PowReducedEveryStep ==
    (last.op = "pow" /\ Fixed(last.x))
    => LET m == Modulus(last.x)
       IN  /\ pw.iter >= 1 => (IntLt(pw.res, m) /\ IntLt(pw.base, m))
           /\ pc = "end"
              => /\ Returned
                 /\ Result = ModInt(FloorMod(IntPow(last.x.num, last.e), m), Static(m))

\* C8 for operands in range: for a Fixed(m) value a with 0 <= a.residue < m and
\* e >= 0, a.pow(e) does not panic, takes one step per bit of e (exp = e div 2^iter)
\* and returns the Fixed(m) value with residue (a.residue^e) mod m; at every step the
\* base is below m, the accumulator is below m or (for m = 1 only) still its seed 1,
\* and res * base^exp is congruent to a.residue^e
C8_PowLaw ==
    (last.op = "pow" /\ Fixed(last.x) /\ Reduced(last.x))
    => LET m == Modulus(last.x)
           want == FloorMod(IntPow(last.x.num, last.e), m)
       IN  /\ last.out.status # "panic"
           /\ pw.exp * 2^pw.iter <= last.e
           /\ last.e < (pw.exp + 1) * 2^pw.iter
           /\ ~pw.base.neg /\ IntLt(pw.base, m)
           /\ ~pw.res.neg
           /\ IntLt(pw.res, m) \/ (m = Z(1) /\ pw.res = Z(1))
           /\ FloorMod(IntMul(pw.res, IntPow(pw.base, pw.exp)), m) = want
           /\ pc = "end" => (Returned /\ Result = ModInt(want, Static(m)))

OpsPrimitive(op) == {op \o "_primitive", op \o "_assign_primitive"}

\* C9: for a Fixed(m) value a and a plain integer k, a <op> k (op in +, -, *, /) is
\* a <op> construct(k, m) with k reduced to its true value mod m; the assignment
\* form leaves that result in a; for +, -, * the residue is the mathematical
\* result mod m
C9_MixedOps ==
    \A op \in PrimOps :
        (last.op \in OpsPrimitive(op) /\ Fixed(last.x))
        => LET m == Modulus(last.x)
               exact == IF op = "add" THEN IntAdd(last.x.num, last.n)
                        ELSE IF op = "sub" THEN IntSub(last.x.num, last.n)
                        ELSE IntMul(last.x.num, last.n)
           IN  /\ last.out = apply(op, last.x, ModInt(FloorMod(last.n, m), Static(m)))
               /\ (op # "div" /\ Reduced(last.x))
                  => (Returned /\ Result = ModInt(FloorMod(exact, m), Static(m)))
               /\ (last.op = op \o "_assign_primitive" /\ Returned) => a = Result

\* C10: for residues x, y in [0, m) of one modulus m <= 2^32 - 1, the product that
\* multiplication (x * y) and division (x * inverse(y)) compute stays in the i64
\* range, so the result is the true product mod m
C10_NoOverflow ==
    (last.op \in OpsMul \cup OpsDiv /\ SameFixed(last.x, last.y)
        /\ Reduced(last.x) /\ Reduced(last.y))
    => LET m == Modulus(last.x)
           factor == IF last.op \in OpsMul THEN last.y.num ELSE inv(last.y).int
           exact == IntMul(last.x.num, factor)
       IN  /\ InI64(exact)
           /\ Returned
           /\ Result = ModInt(FloorMod(exact, m), Static(m))

====
